---- MODULE Spec2Model ----
(***************************************************************************)
(* State machine of the game-show server (src/server.js): the room table   *)
(* `games`, the per-socket data, the clock, and the interval timers.       *)
(* One action per socket.io handler; every handler runs to completion.     *)
(***************************************************************************)
EXTENDS Integers, FiniteSets, Sequences, TLC

\* ------------------------------------------------------------------ bounds
\* Clock value at start-up, the size of one clock advance, and the last
\* clock value explored (milliseconds, as Date.now()).
StartTime == 1000
TimeStep == 30000
MaxNow == 61000
\* Largest questionIndex explored, largest single score total explored,
\* and the largest number of interval timers alive at once.
MaxQuestions == 2
MaxScore == 20
MaxTimers == 2

\* ------------------------------------------------------- program constants
AnswerWindowMs == 30000
DefaultDuration == 15
CorrectPoints == 10

\* ------------------------------------------------------------------ inputs
Conns == {"h", "a", "b"}
Rooms == {"AB12"}

\* null / undefined for object-valued fields; 0 stands for a null timestamp
\* (the code only ever tests timestamps for truthiness) and "null" for a
\* null connection id.
Null == [null |-> TRUE]
NoSid == "null"

\* AnswerValue: a choice index or free text.
Idx(i) == [tag |-> "idx", i |-> i, s |-> ""]
Text(s) == [tag |-> "text", i |-> 0, s |-> s]
NoAnswer == [tag |-> "none", i |-> 0, s |-> ""]

\* Question objects as the host sends them: steps is the number of steps
\* (-1: no steps property), choices the choice list (<<>>: none), buzzer the
\* question's own buzzer property.
Question(type, answer, choices, steps, buzzer) ==
    [type |-> type, answer |-> answer, choices |-> choices, steps |-> steps, buzzer |-> buzzer]
MCQ == Question("mc", Idx(1), <<"Rome", "Paris">>, -1, FALSE)
BuzzQ == Question("buzzer", Text("Paris"), <<>>, -1, FALSE)
SeqQ == Question("sequence", Text("Paris"), <<>>, 2, FALSE)
FlagQ == Question("mc", Idx(1), <<"Rome", "Paris">>, -1, TRUE)
SeqNoSteps == Question("sequence", Text("Paris"), <<>>, -1, FALSE)
Seq1 == Question("sequence", Text("Paris"), <<>>, 1, FALSE)
Seq3 == Question("links", Text("Paris"), <<>>, 3, FALSE)

\* ----------------------------------------------------------------- helpers
Put(f, k, v) == [x \in (DOMAIN f) \cup {k} |-> IF x = k THEN v ELSE f[x]]
Del(f, k) == [x \in (DOMAIN f) \ {k} |-> f[x]]
Empty == [x \in {} |-> 0]
Get(f, k, d) == IF k \in DOMAIN f THEN f[k] ELSE d

VARIABLES games, sdata, online, now, stale, alive, out, traced

vars == <<games, sdata, online, now, stale, alive, out, traced>>

\* What the last handler sent: the acknowledgement passed to the caller's
\* callback (callCb, lines 45-47) and the events it emitted. It is recorded
\* only in the specifications that observe the replies (traced); the server
\* itself never reads it.
Sent(a, e) == [ack |-> a, ev |-> e]
Reply(a, e) == /\ out' = IF traced THEN Sent(a, e) ELSE out
               /\ UNCHANGED traced

\* A handler that threw: the exception is not caught anywhere, the process
\* goes down.
Throw == /\ alive' = FALSE
         /\ Reply("TypeError", {})

HasGame(c) == sdata[c].room \in DOMAIN games
GameOf(c) == games[sdata[c].room]
IsHost(c) == sdata[c].role = "host"

\* Interval timers that no games[room].round owns any more, as a bag of the
\* endsAt each one's closure reads.
StaleCount == IF DOMAIN stale = {} THEN 0
              ELSE LET RECURSIVE Sum(_)
                       Sum(S) == IF S = {} THEN 0
                                 ELSE LET e == CHOOSE e \in S : TRUE
                                      IN stale[e] + Sum(S \ {e})
                   IN Sum(DOMAIN stale)
AddStale(st, e) == Put(st, e, Get(st, e, 0) + 1)
DropStale(st, e) == IF st[e] = 1 THEN Del(st, e) ELSE [st EXCEPT ![e] = @ - 1]
\* The timers a dropped game object leaves running.
Orphaned(st, g) == IF g.round # Null /\ g.round.tick THEN AddStale(st, g.round.endsAt)
                   ELSE st

Init == /\ games = Empty
        /\ sdata = [c \in Conns |-> [room |-> "none", role |-> "none"]]
        /\ online = Conns
        /\ now = StartTime
        /\ stale = Empty
        /\ alive = TRUE
        /\ out = Sent("none", {})
        /\ traced = FALSE

\* The same start, with the replies observed.
InitTraced == /\ games = Empty
              /\ sdata = [c \in Conns |-> [room |-> "none", role |-> "none"]]
              /\ online = Conns
              /\ now = StartTime
              /\ stale = Empty
              /\ alive = TRUE
              /\ out = Sent("none", {})
              /\ traced = TRUE

Live(c) == alive /\ c \in online

\* socket.on("createRoom")
CreateRoom(c, room) ==
    /\ Live(c)
    /\ games' = Put(games, room, [hostId |-> c, players |-> Empty, round |-> Null, buzzer |-> NoSid])
    /\ sdata' = [sdata EXCEPT ![c] = [room |-> room, role |-> "host"]]
    /\ stale' = IF room \in DOMAIN games THEN Orphaned(stale, games[room]) ELSE stale
    /\ Reply("ok", {"players"})
    /\ UNCHANGED <<online, now, alive>>

\* A roster entry that forgets the score the connection already had.
JoinEntryZero(g, c, name, role) ==
    [name |-> name, score |-> 0, role |-> role, buzzerLocked |-> FALSE]

\* The roster entry joinRoom writes, lines 71-76: the score of an entry the
\* connection already has is kept, the lock is cleared.
JoinEntry(g, c, name, role) ==
    [name |-> name,
     score |-> IF c \in DOMAIN g.players THEN g.players[c].score ELSE 0,
     role |-> role,
     buzzerLocked |-> FALSE]

\* socket.on("joinRoom")
JoinRoom(c, room, name, role) ==
    /\ Live(c)
    /\ IF room \notin DOMAIN games
       THEN /\ Reply("Room not found", {})
            /\ UNCHANGED <<games, sdata, online, now, stale, alive>>
       ELSE LET g == games[room]
                p == JoinEntry(g, c, name, role)
            IN /\ sdata' = [sdata EXCEPT ![c] = [room |-> room, role |-> role]]
               /\ games' = [games EXCEPT ![room].players = Put(g.players, c, p)]
               /\ Reply("ok", {"players"})
               /\ UNCHANGED <<online, now, stale, alive>>

\* socket.on("disconnect")
Disconnect(c) ==
    /\ Live(c)
    /\ online' = online \ {c}
    /\ sdata' = [sdata EXCEPT ![c] = [room |-> "none", role |-> "none"]]
    /\ Reply("none", IF ~HasGame(c) THEN {} ELSE IF IsHost(c) THEN {"hostLeft"} ELSE {"players"})
    /\ IF ~HasGame(c)
       THEN UNCHANGED <<games, stale>>
       ELSE IF IsHost(c)
            THEN /\ games' = Del(games, sdata[c].room)
                 /\ stale' = Orphaned(stale, GameOf(c))
            ELSE /\ games' = [games EXCEPT ![sdata[c].room].players = Del(@, c)]
                 /\ UNCHANGED stale
    /\ UNCHANGED <<now, alive>>

\* normalizeAnswer(answer, round), lines 36-43: an index that names a choice
\* becomes that choice's text, any other number its decimal form, anything
\* else its string form (null and undefined: the empty string).
normalizeAnswer(a, choices) ==
    IF a.tag = "idx"
    THEN IF (a.i + 1) \in DOMAIN choices THEN choices[a.i + 1] ELSE ToString(a.i)
    ELSE a.s

\* String.prototype.trim().toLowerCase() on the strings the model uses.
TrimLower(s) ==
    CASE s = "Paris" -> "paris"
      [] s = " paris " -> "paris"
      [] s = "Rome" -> "rome"
      [] OTHER -> s

\* The provisional score of one submission, lines 333-336.
PreviewScore(a, r) ==
    IF TrimLower(normalizeAnswer(a, r.choices)) = TrimLower(normalizeAnswer(r.correctAnswer, r.choices))
    THEN CorrectPoints ELSE 0

\* g.round as startRound builds it, lines 92-100; the fields the later
\* handlers add are present from the start with the value a read of a
\* missing property gives. startedAt is written here and never read.
NewRound(type, rs, e) ==
    [type |-> type, questionIndex |-> 0, roundScores |-> rs, endsAt |-> e,
     buzzerLocked |-> FALSE, buzzer |-> Null, lastBuzzed |-> NoSid,
     currentQuestion |-> Null, answers |-> Null, currentQuestionScores |-> Null,
     correctAnswer |-> NoAnswer, choices |-> <<>>, allAnswered |-> FALSE,
     revealedStepIndex |-> -1, state |-> "none", tick |-> FALSE]

\* A round that always starts from an empty score map.
FreshScores(g) == Empty

\* roundScores: g.round?.roundScores || {}, line 95
CarriedScores(g) == IF g.round # Null THEN g.round.roundScores ELSE Empty

\* socket.on("startRound")
StartRound(c, type, duration) ==
    /\ Live(c)
    /\ IF ~HasGame(c) \/ ~IsHost(c)
       THEN /\ Reply("Not host or no game", {})
            /\ UNCHANGED <<games, sdata, online, now, stale, alive>>
       ELSE LET g == GameOf(c)
            IN /\ games' = [games EXCEPT ![sdata[c].room].round =
                               NewRound(type, CarriedScores(g), now + duration * 1000)]
               /\ stale' = Orphaned(stale, g)
               /\ Reply("ok", {"roundStarted"})
               /\ UNCHANGED <<sdata, online, now, alive>>

\* Locks written as a change of the current value instead of a value.
ToggledLocks(players) == [s \in DOMAIN players |-> [players[s] EXCEPT !.buzzerLocked = ~@]]

\* Object.values(g.players).forEach((p) => (p.buzzerLocked = false))
Unlocked(players) == [s \in DOMAIN players |-> [players[s] EXCEPT !.buzzerLocked = FALSE]]

\* startMCQuestion, lines 130-166
startMCQuestion(r, q) ==
    [r EXCEPT !.currentQuestion = q, !.answers = Empty, !.currentQuestionScores = Empty,
              !.correctAnswer = q.answer, !.choices = q.choices, !.buzzer = Null,
              !.buzzerLocked = FALSE, !.allAnswered = FALSE,
              !.endsAt = now + AnswerWindowMs, !.tick = TRUE]

\* startBuzzerQuestion, lines 168-203
startBuzzerQuestion(r, q) ==
    [r EXCEPT !.currentQuestion = q, !.answers = Empty, !.currentQuestionScores = Empty,
              !.correctAnswer = q.answer, !.choices = <<>>, !.buzzer = Null,
              !.buzzerLocked = FALSE, !.lastBuzzed = NoSid, !.allAnswered = FALSE,
              !.endsAt = 0]

\* startSequenceQuestion, lines 205-237
startSequenceQuestion(r, q) ==
    [r EXCEPT !.currentQuestion = q, !.answers = Empty, !.currentQuestionScores = Empty,
              !.correctAnswer = q.answer, !.revealedStepIndex = 0, !.allAnswered = FALSE,
              !.endsAt = 0, !.buzzer = Null, !.lastBuzzed = NoSid]

\* socket.on("startQuestion")
StartQuestion(c, q) ==
    /\ Live(c)
    /\ IF ~HasGame(c) \/ ~IsHost(c) \/ GameOf(c).round = Null
       THEN /\ Reply("fail", {})
            /\ UNCHANGED <<games, sdata, online, now, stale, alive>>
       ELSE LET room == sdata[c].room
                g == GameOf(c)
                r0 == [g.round EXCEPT !.tick = FALSE]
            IN IF q = Null
               THEN \* question.type on undefined throws, after the ticker was cleared
                    /\ games' = [games EXCEPT ![room].round = r0]
                    /\ Throw
                    /\ UNCHANGED <<sdata, online, now, stale>>
               ELSE IF q.type = "buzzer"
               THEN /\ games' = [games EXCEPT ![room].round = startBuzzerQuestion(r0, q),
                                              ![room].players = Unlocked(g.players)]
                    /\ Reply("ok", {"buzzerReset", "questionStarted", "hostBuzzerQuestionStarted"})
                    /\ UNCHANGED <<sdata, online, now, stale, alive>>
               ELSE IF q.type \in {"sequence", "links"}
               THEN /\ games' = [games EXCEPT ![room].round = startSequenceQuestion(r0, q),
                                              ![room].players = Unlocked(g.players)]
                    /\ IF q.steps < 0
                       THEN \* question.steps[0] on undefined throws, after the round was set up
                            Throw
                       ELSE /\ Reply("ok", {"sequenceStarted", "hostSequenceQuestionStarted"})
                            /\ UNCHANGED alive
                    /\ UNCHANGED <<sdata, online, now, stale>>
               ELSE /\ StaleCount + 1 <= MaxTimers
                    /\ now + AnswerWindowMs <= MaxNow
                    /\ games' = [games EXCEPT ![room].round = startMCQuestion(r0, q)]
                    /\ Reply("ok", {"hostQuestionData", "questionStarted"})
                    /\ UNCHANGED <<sdata, online, now, stale, alive>>

\* buzz without the test for an existing holder.
BuzzAckNoHolderTest(c) ==
    IF ~HasGame(c) \/ GameOf(c).round = Null THEN "No round"
    ELSE IF GameOf(c).round.buzzerLocked THEN "Buzzers locked"
    ELSE IF c \notin DOMAIN GameOf(c).players \/ GameOf(c).players[c].buzzerLocked
         THEN "You are locked out"
    ELSE "ok"

\* The early returns of socket.on("buzz"), lines 243-254, in the code's order.
BuzzAck(c) ==
    IF ~HasGame(c) \/ GameOf(c).round = Null THEN "No round"
    ELSE IF GameOf(c).round.buzzerLocked THEN "Buzzers locked"
    ELSE IF c \notin DOMAIN GameOf(c).players \/ GameOf(c).players[c].buzzerLocked
         THEN "You are locked out"
    ELSE IF GameOf(c).round.buzzer # Null THEN "Already buzzed"
    ELSE "ok"

\* socket.on("buzz")
Buzz(c) ==
    /\ Live(c)
    /\ IF BuzzAck(c) # "ok"
       THEN /\ Reply(BuzzAck(c), {})
            /\ UNCHANGED games
       ELSE /\ games' = [games EXCEPT ![sdata[c].room].round =
                            [@ EXCEPT !.buzzer = [sid |-> c, name |-> GameOf(c).players[c].name, ts |-> now],
                                      !.lastBuzzed = c]]
            /\ Reply("ok", {"buzzed"})
    /\ UNCHANGED <<sdata, online, now, stale, alive>>

\* A reset that locks nobody.
LockNobody(g) == g.players

\* The advance-and-lock branch of resetBuzzer, lines 297-308.
LockLast(g) ==
    IF g.round.lastBuzzed # NoSid /\ g.round.lastBuzzed \in DOMAIN g.players
    THEN [g.players EXCEPT ![g.round.lastBuzzed].buzzerLocked = TRUE]
    ELSE g.players

\* A reset that also sets the round's own lock.
ClearHolderAndLock(r) == [r EXCEPT !.buzzer = Null, !.lastBuzzed = NoSid, !.buzzerLocked = TRUE]

\* r.buzzer = null; r.lastBuzzed = null, in each branch of resetBuzzer
ClearHolder(r) == [r EXCEPT !.buzzer = Null, !.lastBuzzed = NoSid]

\* The game object after the body of resetBuzzer, lines 275-308: the full
\* reset, the reset that keeps the locks, and the reset that locks the
\* last buzzer (the branch every other combination of the flags takes).
ResetGame(g, all, preserveLocks) ==
    IF all /\ ~preserveLocks
    THEN [g EXCEPT !.round = [ClearHolder(g.round) EXCEPT !.buzzerLocked = FALSE],
                   !.players = Unlocked(g.players)]
    ELSE IF ~all /\ preserveLocks
    THEN [g EXCEPT !.round = ClearHolder(g.round)]
    ELSE [g EXCEPT !.round = ClearHolder(g.round), !.players = LockLast(g)]

\* socket.on("resetBuzzer")
ResetBuzzer(c, all, preserveLocks) ==
    /\ Live(c)
    /\ IF ~HasGame(c) \/ ~IsHost(c) \/ GameOf(c).round = Null
       THEN /\ Reply("fail", {})
            /\ UNCHANGED games
       ELSE LET g == GameOf(c)
            IN /\ games' = [games EXCEPT ![sdata[c].room] = ResetGame(g, all, preserveLocks)]
               /\ Reply("ok", IF (all /\ ~preserveLocks) \/ (~all /\ preserveLocks)
                              THEN {"buzzerStatus", "buzzerReset"}
                              ELSE IF g.round.lastBuzzed # NoSid /\ g.round.lastBuzzed \in DOMAIN g.players
                              THEN {"buzzerStatus", "buzzerLockedOut", "buzzerReset"}
                              ELSE {"buzzerReset"})
    /\ UNCHANGED <<sdata, online, now, stale, alive>>

\* The all-answered test of submitAnswer, lines 342-344: every roster entry
\* with role "player" has an answer recorded.
AllPlayersAnswered(players, answers) ==
    \A s \in DOMAIN players : players[s].role = "player" => s \in DOMAIN answers

\* submitAnswer without the deadline test.
SubmitAckNoDeadline(c) ==
    IF ~HasGame(c) \/ GameOf(c).round = Null THEN "fail"
    ELSE IF GameOf(c).round.answers = Null THEN "TypeError"
    ELSE "ok"

\* The early returns of socket.on("submitAnswer"), lines 318-329; the write to
\* r.answers throws when no question of this round has created the map yet.
SubmitAck(c) ==
    IF ~HasGame(c) \/ GameOf(c).round = Null THEN "fail"
    ELSE IF GameOf(c).round.endsAt # 0 /\ now > GameOf(c).round.endsAt THEN "tooLate"
    ELSE IF GameOf(c).round.answers = Null THEN "TypeError"
    ELSE "ok"

\* socket.on("submitAnswer")
SubmitAnswer(c, answer) ==
    /\ Live(c)
    /\ IF SubmitAck(c) = "TypeError"
       THEN /\ Throw
            /\ UNCHANGED games
       ELSE IF SubmitAck(c) # "ok"
       THEN /\ Reply(SubmitAck(c), {})
            /\ UNCHANGED <<games, alive>>
       ELSE LET g == GameOf(c)
                r == g.round
                answers == Put(r.answers, c, answer)
                scores == Put(r.currentQuestionScores, c, PreviewScore(answer, r))
                done == AllPlayersAnswered(g.players, answers)
            IN /\ games' = [games EXCEPT ![sdata[c].room].round =
                               [r EXCEPT !.answers = answers,
                                         !.currentQuestionScores = scores,
                                         !.allAnswered = IF done THEN TRUE ELSE @,
                                         !.tick = IF done THEN FALSE ELSE @]]
               /\ Reply("ok", IF done THEN {"allAnswered", "playerAnswered"} ELSE {"playerAnswered"})
               /\ UNCHANGED alive
    /\ UNCHANGED <<sdata, online, now, stale>>

\* The checks of socket.on("revealAnswer"), lines 372-383.
RevealAck(c) ==
    IF ~HasGame(c) \/ ~IsHost(c) \/ GameOf(c).round = Null THEN "fail"
    ELSE LET r == GameOf(c).round
             allAnswered == r.allAnswered
             timeExpired == r.endsAt <= now
             isBuzzer == r.currentQuestion # Null /\ r.currentQuestion.buzzer
         IN IF ~allAnswered /\ ~isBuzzer /\ ~timeExpired THEN "early" ELSE "ok"

\* socket.on("revealAnswer")
RevealAnswer(c) ==
    /\ Live(c)
    /\ Reply(RevealAck(c), IF RevealAck(c) = "ok" THEN {"answerRevealed"} ELSE {})
    /\ UNCHANGED <<games, sdata, online, now, stale, alive>>

\* The delta loop of confirmPoints, lines 403-408.
AddRoundScores(rs, confirmedScores) ==
    [s \in (DOMAIN rs) \cup (DOMAIN confirmedScores) |->
        Get(rs, s, 0) + Get(confirmedScores, s, 0)]
AddPlayerScores(players, confirmedScores) ==
    [s \in DOMAIN players |->
        [players[s] EXCEPT !.score = @ + Get(confirmedScores, s, 0)]]

\* A confirmPoints that leaves the index where it is.
SameIndex(r) == r.questionIndex

\* r.questionIndex = (r.questionIndex || 0) + 1, line 410
NextIndex(r) == r.questionIndex + 1

\* socket.on("confirmPoints")
ConfirmPoints(c, confirmedScores) ==
    /\ Live(c)
    /\ IF ~HasGame(c) \/ GameOf(c).round = Null \/ ~IsHost(c)
       THEN /\ Reply("fail", {})
            /\ UNCHANGED games
       ELSE LET room == sdata[c].room
                g == GameOf(c)
                r == g.round
                rs == AddRoundScores(r.roundScores, confirmedScores)
                ps == AddPlayerScores(g.players, confirmedScores)
            IN /\ r.questionIndex < MaxQuestions
               /\ \A s \in DOMAIN rs : rs[s] <= MaxScore
               /\ \A s \in DOMAIN ps : ps[s].score <= MaxScore
               /\ games' = [games EXCEPT ![room].players = ps,
                                         ![room].round =
                               [r EXCEPT !.roundScores = rs,
                                         !.questionIndex = NextIndex(r),
                                         !.currentQuestion = Null,
                                         !.currentQuestionScores = Empty,
                                         !.answers = Empty,
                                         !.buzzer = Null,
                                         !.buzzerLocked = FALSE]]
               /\ Reply("ok", {"scoreUpdate"})
    /\ UNCHANGED <<sdata, online, now, stale, alive>>

\* socket.on("endRound"); g.round.roundScores throws when no round is active.
EndRound(c) ==
    /\ Live(c)
    /\ IF ~HasGame(c) \/ ~IsHost(c)
       THEN /\ Reply("fail", {})
            /\ UNCHANGED <<games, alive>>
       ELSE IF GameOf(c).round = Null
       THEN /\ Throw
            /\ UNCHANGED games
       ELSE /\ games' = [games EXCEPT ![sdata[c].room].round = Null]
            /\ Reply("ok", {"roundScoresFinal", "roundLeaderboard"})
            /\ UNCHANGED alive
    /\ UNCHANGED <<sdata, online, now, stale>>

\* socket.on("showFullLeaderboard")
ShowFullLeaderboard(c) ==
    /\ Live(c)
    /\ IF ~HasGame(c) \/ ~IsHost(c)
       THEN Reply("fail", {})
       ELSE Reply("ok", {"finalScoreboard"})
    /\ UNCHANGED <<games, sdata, online, now, stale, alive>>

\* socket.on("endShow")
EndShow(c) ==
    /\ Live(c)
    /\ IF ~HasGame(c) \/ ~IsHost(c)
       THEN Reply("fail", {})
       ELSE Reply("ok", {"finalScoreboard"})
    /\ UNCHANGED <<games, sdata, online, now, stale, alive>>

\* revealNextStep without the test for the last step.
NextStepAckNoBound(c) ==
    IF ~HasGame(c) \/ ~IsHost(c) \/ GameOf(c).round = Null THEN "fail"
    ELSE LET r == GameOf(c).round
             q == r.currentQuestion
         IN IF q = Null \/ q.steps < 0 THEN "fail"
            ELSE "ok"

\* The checks of socket.on("revealNextStep"), lines 490-500.
NextStepAck(c) ==
    IF ~HasGame(c) \/ ~IsHost(c) \/ GameOf(c).round = Null THEN "fail"
    ELSE LET r == GameOf(c).round
             q == r.currentQuestion
         IN IF q = Null \/ q.steps < 0 THEN "fail"
            ELSE IF r.revealedStepIndex >= q.steps - 1 THEN "noMoreSteps"
            ELSE "ok"

\* socket.on("revealNextStep")
RevealNextStep(c) ==
    /\ Live(c)
    /\ IF NextStepAck(c) # "ok"
       THEN /\ Reply(NextStepAck(c), {})
            /\ UNCHANGED games
       ELSE /\ games' = [games EXCEPT ![sdata[c].room].round.revealedStepIndex = @ + 1]
            /\ Reply("ok", {"sequenceStepRevealed"})
    /\ UNCHANGED <<sdata, online, now, stale, alive>>

\* visibleSteps as the handlers broadcast it: [question.steps[0]] at the
\* start (line 225) and q.steps.slice(0, r.revealedStepIndex + 1) afterwards
\* (line 508), as the sequence of the positions of the steps shown.
visibleSteps(q, idx) ==
    LET k == IF idx + 1 < q.steps THEN idx + 1 ELSE q.steps
    IN [i \in 1..k |-> i - 1]

\* socket.on("revealSequenceAnswer")
RevealSequenceAnswer(c) ==
    /\ Live(c)
    /\ IF ~HasGame(c) \/ ~IsHost(c) \/ GameOf(c).round = Null
       THEN /\ Reply("fail", {})
            /\ UNCHANGED games
       ELSE IF GameOf(c).round.currentQuestion = Null
       THEN /\ Reply("fail", {})
            /\ UNCHANGED games
       ELSE /\ games' = [games EXCEPT ![sdata[c].room].round.state = "answerRevealed"]
            /\ Reply("ok", {"sequenceAnswerRevealed"})
    /\ UNCHANGED <<sdata, online, now, stale, alive>>

\* remaining = Math.max(0, Math.round((r.endsAt - Date.now()) / 1000)), line 157
Remaining(endsAt) ==
    LET rounded == (endsAt - now + 500) \div 1000
    IN IF rounded > 0 THEN rounded ELSE 0

\* An interval callback that never clears its own timer.
TickNoStop(room) ==
    /\ alive
    /\ room \in DOMAIN games
    /\ games[room].round # Null
    /\ games[room].round.tick
    /\ Reply("none", IF Remaining(games[room].round.endsAt) <= 0 THEN {"tick", "roundEnded"} ELSE {"tick"})
    /\ UNCHANGED <<games, sdata, online, now, stale, alive>>

\* One firing of the interval callback of lines 156-165 for the round that
\* still owns its timer.
Tick(room) ==
    /\ alive
    /\ room \in DOMAIN games
    /\ games[room].round # Null
    /\ games[room].round.tick
    /\ IF Remaining(games[room].round.endsAt) <= 0
       THEN /\ games' = [games EXCEPT ![room].round.tick = FALSE]
            /\ Reply("none", {"tick", "roundEnded"})
       ELSE /\ Reply("none", {"tick"})
            /\ UNCHANGED games
    /\ UNCHANGED <<sdata, online, now, stale, alive>>

\* One firing of the same callback for a timer whose round was dropped with
\* the timer still running.
StaleTick(e) ==
    /\ alive
    /\ e \in DOMAIN stale
    /\ IF Remaining(e) <= 0
       THEN /\ stale' = DropStale(stale, e)
            /\ Reply("none", {"tick", "roundEnded"})
       ELSE /\ Reply("none", {"tick"})
            /\ UNCHANGED stale
    /\ UNCHANGED <<games, sdata, online, now, alive>>

\* Something reads the clock: a round or a running timer exists.
ClockRead == (\E r \in DOMAIN games : games[r].round # Null) \/ DOMAIN stale # {}

\* The clock moves on.
Advance ==
    /\ alive
    /\ ClockRead
    /\ now + TimeStep <= MaxNow
    /\ now' = now + TimeStep
    /\ UNCHANGED <<games, sdata, online, stale, alive, out, traced>>

\* The next-state relation for an environment E: which connections issue
\* which requests, and the payloads they send.
NextOf(E) ==
    \/ \E c \in E.creators, r \in Rooms : CreateRoom(c, r)
    \/ \E c \in E.joiners, r \in Rooms, n \in E.names, ro \in E.roles : JoinRoom(c, r, n, ro)
    \/ \E c \in E.leavers : Disconnect(c)
    \/ \E c \in E.hosts, d \in E.durations : StartRound(c, "mc", d)
    \/ \E c \in E.hosts, q \in E.questions : StartQuestion(c, q)
    \/ \E c \in E.buzzers : Buzz(c)
    \/ \E c \in E.hosts, m \in E.resets : ResetBuzzer(c, m[1], m[2])
    \/ \E c \in E.answerers, a \in E.answers : SubmitAnswer(c, a)
    \/ \E c \in E.hosts : RevealAnswer(c)
    \/ \E c \in E.hosts, m \in E.maps : ConfirmPoints(c, m)
    \/ \E c \in E.hosts : EndRound(c)
    \/ \E c \in E.hosts : ShowFullLeaderboard(c)
    \/ \E c \in E.hosts : EndShow(c)
    \/ \E c \in E.hosts : RevealNextStep(c)
    \/ \E c \in E.hosts : RevealSequenceAnswer(c)
    \/ \E r \in Rooms : Tick(r)
    \/ \E e \in DOMAIN stale : StaleTick(e)
    \/ Advance

MapsOver(S, D) == UNION {[T -> D] : T \in SUBSET S}
AllResets == BOOLEAN \X BOOLEAN

\* The host h and one player a, every handler, every question type.
Env == [creators |-> {"h"}, joiners |-> {"a"}, leavers |-> {"h", "a"},
        names |-> {"Ann"}, roles |-> {"player"}, hosts |-> {"h"},
        buzzers |-> {"a"}, answerers |-> {"a"},
        durations |-> {DefaultDuration}, questions |-> {MCQ, BuzzQ, SeqQ},
        resets |-> AllResets, answers |-> {Idx(1)}, maps |-> MapsOver({"a"}, {0, 10})]

\* Buzzer play: the players a and b, every reset mode, the host confirming
\* an empty score map.
EnvBuzz == [Env EXCEPT !.joiners = {"a", "b"}, !.leavers = Conns, !.buzzers = {"a", "b"},
                       !.questions = {BuzzQ, MCQ}, !.maps = {Empty}]

\* Answering: the players a and b, a right and a wrong answer, a timed
\* question, one that carries a buzzer property, and a buzzer question.
EnvAnswer == [Env EXCEPT !.joiners = {"a", "b"}, !.leavers = Conns, !.answerers = {"a", "b"},
                         !.questions = {MCQ, FlagQ, BuzzQ}, !.answers = {Idx(1), Idx(0)},
                         !.maps = {Empty}]

\* Roles: the joiner a asks for either role, both h and a issue the
\* host-only requests, and both submit answers.
EnvRoles == [Env EXCEPT !.roles = {"player", "host"}, !.hosts = {"h", "a"},
                        !.answerers = {"h", "a"}, !.questions = {MCQ},
                        !.resets = {<<FALSE, FALSE>>}, !.maps = {Empty}]

\* Requests whose precondition does not hold: a startQuestion payload
\* without a question (Null), a sequence question without steps, endRound
\* and submitAnswer at any time.
EnvFail == [Env EXCEPT !.questions = {MCQ, SeqNoSteps, Null},
                       !.resets = {<<FALSE, FALSE>>}, !.maps = {Empty}]

\* Sequence play: questions of one, two and three steps and a buzzer
\* question between them.
EnvSeq == [Env EXCEPT !.questions = {Seq1, SeqQ, Seq3, BuzzQ},
                      !.resets = {<<FALSE, FALSE>>}, !.maps = {Empty}]

\* Timed play: the host starts timed and buzzer questions, replaces and
\* ends rounds and leaves; the player a answers.
EnvTick == [Env EXCEPT !.questions = {MCQ, BuzzQ}, !.maps = {Empty}]

Next == NextOf(Env)

\* The handlers that read or write the sequence state, the buzzer, the
\* roster and the round.
NextSeq ==
    \/ \E c \in EnvSeq.creators, r \in Rooms : CreateRoom(c, r)
    \/ \E c \in EnvSeq.joiners, r \in Rooms, n \in EnvSeq.names, ro \in EnvSeq.roles : JoinRoom(c, r, n, ro)
    \/ \E c \in EnvSeq.leavers : Disconnect(c)
    \/ \E c \in EnvSeq.hosts, d \in EnvSeq.durations : StartRound(c, "mc", d)
    \/ \E c \in EnvSeq.hosts, q \in EnvSeq.questions : StartQuestion(c, q)
    \/ \E c \in EnvSeq.buzzers : Buzz(c)
    \/ \E c \in EnvSeq.hosts, m \in EnvSeq.resets : ResetBuzzer(c, m[1], m[2])
    \/ \E c \in EnvSeq.hosts, m \in EnvSeq.maps : ConfirmPoints(c, m)
    \/ \E c \in EnvSeq.hosts : EndRound(c)
    \/ \E c \in EnvSeq.hosts : RevealNextStep(c)
    \/ \E c \in EnvSeq.hosts : RevealSequenceAnswer(c)
NextFail == NextOf(EnvFail)
NextRoles == NextOf(EnvRoles)

\* The handlers that read or write the buzzer state, the roster, the round
\* and the timers.
NextBuzz ==
    \/ \E c \in EnvBuzz.creators, r \in Rooms : CreateRoom(c, r)
    \/ \E c \in EnvBuzz.joiners, r \in Rooms, n \in EnvBuzz.names, ro \in EnvBuzz.roles : JoinRoom(c, r, n, ro)
    \/ \E c \in EnvBuzz.leavers : Disconnect(c)
    \/ \E c \in EnvBuzz.hosts, d \in EnvBuzz.durations : StartRound(c, "mc", d)
    \/ \E c \in EnvBuzz.hosts, q \in EnvBuzz.questions : StartQuestion(c, q)
    \/ \E c \in EnvBuzz.buzzers : Buzz(c)
    \/ \E c \in EnvBuzz.hosts, m \in EnvBuzz.resets : ResetBuzzer(c, m[1], m[2])
    \/ \E c \in EnvBuzz.hosts, m \in EnvBuzz.maps : ConfirmPoints(c, m)
    \/ \E c \in EnvBuzz.hosts : EndRound(c)
    \/ \E r \in Rooms : Tick(r)
    \/ \E e \in DOMAIN stale : StaleTick(e)
    \/ Advance

\* The handlers that read or write the answers, the deadline, the roster,
\* the round and the timers.
NextAnswer ==
    \/ \E c \in EnvAnswer.creators, r \in Rooms : CreateRoom(c, r)
    \/ \E c \in EnvAnswer.joiners, r \in Rooms, n \in EnvAnswer.names, ro \in EnvAnswer.roles : JoinRoom(c, r, n, ro)
    \/ \E c \in EnvAnswer.leavers : Disconnect(c)
    \/ \E c \in EnvAnswer.hosts, d \in EnvAnswer.durations : StartRound(c, "mc", d)
    \/ \E c \in EnvAnswer.hosts, q \in EnvAnswer.questions : StartQuestion(c, q)
    \/ \E c \in EnvAnswer.answerers, a \in EnvAnswer.answers : SubmitAnswer(c, a)
    \/ \E c \in EnvAnswer.hosts : RevealAnswer(c)
    \/ \E c \in EnvAnswer.hosts, m \in EnvAnswer.maps : ConfirmPoints(c, m)
    \/ \E r \in Rooms : Tick(r)
    \/ \E e \in DOMAIN stale : StaleTick(e)
    \/ Advance

\* The handlers that start, cancel or drop a ticker, the timer firings and
\* the clock.
NextTick ==
    \/ \E c \in EnvTick.creators, r \in Rooms : CreateRoom(c, r)
    \/ \E c \in EnvTick.joiners, r \in Rooms, n \in EnvTick.names, ro \in EnvTick.roles : JoinRoom(c, r, n, ro)
    \/ \E c \in EnvTick.leavers : Disconnect(c)
    \/ \E c \in EnvTick.hosts, d \in EnvTick.durations : StartRound(c, "mc", d)
    \/ \E c \in EnvTick.hosts, q \in EnvTick.questions : StartQuestion(c, q)
    \/ \E c \in EnvTick.answerers, a \in EnvTick.answers : SubmitAnswer(c, a)
    \/ \E c \in EnvTick.hosts, m \in EnvTick.maps : ConfirmPoints(c, m)
    \/ \E c \in EnvTick.hosts : EndRound(c)
    \/ \E r \in Rooms : Tick(r)
    \/ \E e \in DOMAIN stale : StaleTick(e)
    \/ Advance

\* The clock values the model visits and the deadlines a timed question
\* started at one of them gets.
Times == {StartTime + k * TimeStep : k \in 0..((MaxNow - StartTime) \div TimeStep)}
EndTimes == {t + AnswerWindowMs : t \in Times}

\* While the process lives the clock moves on and every running interval
\* timer keeps firing (setInterval, every 500 ms).
TimeFairness ==
    /\ WF_vars(Advance)
    /\ \A r \in Rooms : WF_vars(Tick(r))
    /\ \A e \in EndTimes : WF_vars(StaleTick(e))

Spec == Init /\ [][Next]_vars
SpecBuzz == InitTraced /\ [][NextBuzz]_vars
SpecAnswer == InitTraced /\ [][NextAnswer]_vars
SpecRoles == InitTraced /\ [][NextRoles]_vars
SpecFail == InitTraced /\ [][NextFail]_vars
SpecSeq == InitTraced /\ [][NextSeq]_vars
SpecTick == InitTraced /\ [][NextTick]_vars /\ TimeFairness

\* -------------------------------------------------------------- properties
Round(room) == games[room].round
Holder(room) == games[room].round.buzzer
HasRound(room) == room \in DOMAIN games /\ games[room].round # Null
InRoster(c) == HasGame(c) /\ c \in DOMAIN GameOf(c).players

\* Events of the handlers that clear r.buzzer or replace the round.
ClearEvents == {"buzzerReset", "scoreUpdate", "hostQuestionData", "sequenceStarted", "roundStarted"}

\* A buzz() issued while the round has a holder fails and changes nothing.
BuzzWhileHeld(c) ==
    /\ HasGame(c)
    /\ GameOf(c).round # Null
    /\ GameOf(c).round.buzzer # Null
    /\ Buzz(c)

\* C1 (as amended): a round has at most one buzzer holder. While a holder is
\* set, every buzz() fails and leaves the game unchanged: with "Already
\* buzzed" when the caller is a roster member who is not locked out, with
\* "You are locked out" otherwise; and the holder (sid, name, ts) only ever
\* changes by being cleared, by resetBuzzer, confirmPoints, startQuestion or
\* a startRound that replaces the round.
C1_OneHolder ==
    [][ /\ \A c \in Conns : BuzzWhileHeld(c) =>
              /\ games' = games
              /\ out'.ack = IF InRoster(c) /\ ~GameOf(c).players[c].buzzerLocked
                            THEN "Already buzzed" ELSE "You are locked out"
        /\ \A r \in Rooms : (HasRound(r) /\ Holder(r) # Null /\ HasRound(r)') =>
              \/ Holder(r)' = Holder(r)
              \/ Holder(r)' = Null /\ out'.ev \cap ClearEvents # {}
      ]_vars

\* C1 as stated: every buzz() by a roster member while a holder is set fails
\* with "Already buzzed".
C1_AlwaysAlreadyBuzzed ==
    [][ \A c \in Conns : (BuzzWhileHeld(c) /\ InRoster(c)) =>
              (games' = games /\ out'.ack = "Already buzzed") ]_vars

\* A second buzz was refused while the first holder stays.
C1_Witness ==
    /\ traced
    /\ out.ack = "Already buzzed"
    /\ \E r \in Rooms : HasRound(r) /\ Holder(r) # Null

\* resetBuzzer({all: false, preserveLocks: false}) with lastBuzzed = x, x in the roster
LockReset(h, x) ==
    /\ HasGame(h) /\ IsHost(h) /\ GameOf(h).round # Null
    /\ GameOf(h).round.lastBuzzed = x
    /\ x \in DOMAIN GameOf(h).players
    /\ ResetBuzzer(h, FALSE, FALSE)

\* C2: after an advance-and-lock reset with lastBuzzed = x in the roster, x is
\* locked out, holder and lastBuzzed are cleared, every other player's lock
\* is as before, buzz() by x would fail with "You are locked out" and buzz()
\* by any other roster member who is not locked would succeed.
C2_AdvanceAndLock ==
    [][ \A h \in Conns, x \in Conns : LockReset(h, x) =>
          LET room == sdata[h].room
              before == games[room].players
              after == games'[room].players
          IN /\ out'.ack = "ok"
             /\ after[x].buzzerLocked
             /\ games'[room].round.buzzer = Null
             /\ games'[room].round.lastBuzzed = NoSid
             /\ DOMAIN after = DOMAIN before
             /\ \A p \in DOMAIN before \ {x} : after[p] = before[p]
             /\ BuzzAck(x)' = "You are locked out"
             /\ \A p \in DOMAIN after \ {x} :
                   (sdata[p].room = room /\ ~after[p].buzzerLocked) => BuzzAck(p)' = "ok"
      ]_vars

\* The previous holder was locked out by the reset and another player of the
\* roster is free to buzz.
C2_Witness ==
    /\ traced
    /\ "buzzerLockedOut" \in out.ev
    /\ \E r \in Rooms : /\ HasRound(r)
                        /\ \E x, p \in DOMAIN games[r].players :
                              /\ games[r].players[x].buzzerLocked
                              /\ ~games[r].players[p].buzzerLocked
                              /\ BuzzAck(p) = "ok"

\* submitAnswer issued on a round whose deadline has passed
LateSubmit(c, a) ==
    /\ HasGame(c)
    /\ GameOf(c).round # Null
    /\ GameOf(c).round.endsAt # 0
    /\ now > GameOf(c).round.endsAt
    /\ SubmitAnswer(c, a)

\* C3: submitAnswer issued when the round has a deadline and the clock is
\* past it fails with "tooLate" and leaves the game (answers,
\* currentQuestionScores, allAnswered and everything else) unchanged.
C3_TooLate ==
    [][ \A c \in Conns, a \in EnvAnswer.answers : LateSubmit(c, a) =>
            (out'.ack = "tooLate" /\ games' = games /\ alive' = alive) ]_vars

\* A late submission was refused on a question that already holds an answer.
C3_Witness ==
    /\ traced
    /\ out.ack = "tooLate"
    /\ \E r \in Rooms : /\ HasRound(r)
                        /\ Round(r).currentQuestion # Null
                        /\ Round(r).answers # Null
                        /\ DOMAIN Round(r).answers # {}
                        /\ now > Round(r).endsAt

HasPlayers(room) == \E s \in DOMAIN games[room].players : games[room].players[s].role = "player"

\* C4: while a question is active (between startQuestion and confirmPoints),
\* allAnswered is true exactly when every roster entry with role player has
\* an entry in answers. (Stated for rosters with at least one player.)
C4_AllAnsweredExact ==
    \A r \in Rooms :
        (HasRound(r) /\ Round(r).currentQuestion # Null /\ HasPlayers(r)) =>
            (Round(r).allAnswered <=> AllPlayersAnswered(games[r].players, Round(r).answers))

\* confirmPoints issued by the host of a game with an active round
HostConfirm(c, m) ==
    /\ HasGame(c) /\ IsHost(c) /\ GameOf(c).round # Null
    /\ ConfirmPoints(c, m)

\* C5: confirmPoints adds, for every entry sid -> d of the map, exactly d to
\* roundScores[sid] and exactly d to Player[sid].score, and leaves the scores
\* of every player outside the map unchanged.
C5_ConfirmAddsBoth ==
    [][ \A c \in Conns, m \in Env.maps : HostConfirm(c, m) =>
          LET room == sdata[c].room
              rs == games[room].round.roundScores
              rs2 == games'[room].round.roundScores
              ps == games[room].players
              ps2 == games'[room].players
          IN /\ \A s \in DOMAIN m :
                   /\ s \in DOMAIN rs2 /\ rs2[s] = Get(rs, s, 0) + m[s]
                   /\ s \in DOMAIN ps /\ s \in DOMAIN ps2
                   /\ ps2[s].score = ps[s].score + m[s]
             /\ \A s \in (DOMAIN ps) \ (DOMAIN m) : s \in DOMAIN ps2 /\ ps2[s].score = ps[s].score
             /\ \A s \in (DOMAIN rs) \ (DOMAIN m) : s \in DOMAIN rs2 /\ rs2[s] = rs[s]
      ]_vars

\* C6: in every step in which a game keeps its round, for every connection
\* id, roundScores[sid] changes by d if and only if Player[sid].score changes
\* by d (a missing roundScores entry counts as 0).
C6_ScoresMoveTogether ==
    [][ \A r \in Rooms : (HasRound(r) /\ HasRound(r)') =>
          \A s \in Conns :
             LET rsBefore == Get(games[r].round.roundScores, s, 0)
                 rsAfter == Get(games'[r].round.roundScores, s, 0)
                 inBoth == s \in DOMAIN games[r].players /\ s \in DOMAIN games'[r].players
             IN /\ rsAfter # rsBefore =>
                     (inBoth /\ games'[r].players[s].score - games[r].players[s].score = rsAfter - rsBefore)
                /\ (inBoth /\ games'[r].players[s].score # games[r].players[s].score) =>
                     (games'[r].players[s].score - games[r].players[s].score = rsAfter - rsBefore)
      ]_vars

\* Some confirmPoints call of the environment explains the step.
ConfirmStep == \E c \in Conns, m \in Env.maps : HostConfirm(c, m)
\* Some startRound call of the environment explains the step.
RoundStartStep == \E c \in Conns, d \in Env.durations : HasGame(c) /\ IsHost(c) /\ StartRound(c, "mc", d)

\* C7: the cumulative score of a player who stays in the roster changes only
\* in a confirmPoints step: no other handler and no timer firing changes it,
\* and revealAnswer also leaves roundScores (the whole game) unchanged.
C7_OnlyConfirmScores ==
    [][ /\ \A r \in Rooms : (r \in DOMAIN games /\ r \in DOMAIN games') =>
              \A s \in (DOMAIN games[r].players) \cap (DOMAIN games'[r].players) :
                  games'[r].players[s].score # games[r].players[s].score => ConfirmStep
        /\ \A c \in Conns : RevealAnswer(c) => games' = games
      ]_vars

\* A player in the roster holds confirmed points while a later question is
\* running.
C7_Witness ==
    \E r \in Rooms :
        /\ HasRound(r)
        /\ Round(r).currentQuestion # Null
        /\ \E s \in DOMAIN games[r].players : games[r].players[s].score > 0

\* C8: while a game keeps its round, questionIndex changes only by a
\* confirmPoints step, which adds exactly 1; every successful confirmPoints
\* adds 1; a round that startRound creates starts at 0.
C8_QuestionIndex ==
    [][ /\ \A r \in Rooms : (HasRound(r) /\ HasRound(r)') =>
              \/ Round(r)'.questionIndex = Round(r).questionIndex
              \/ Round(r)'.questionIndex = Round(r).questionIndex + 1 /\ ConfirmStep
              \/ Round(r)'.questionIndex = 0 /\ RoundStartStep
        /\ \A c \in Conns, m \in Env.maps : HostConfirm(c, m) =>
              games'[sdata[c].room].round.questionIndex = GameOf(c).round.questionIndex + 1
        /\ \A r \in Rooms : (r \in DOMAIN games /\ games[r].round = Null /\ HasRound(r)') =>
              Round(r)'.questionIndex = 0
      ]_vars

\* Two confirmPoints calls were made in one round.
C8_Witness == \E r \in Rooms : HasRound(r) /\ Round(r).questionIndex = 2

\* revealAnswer issued by the host of a game with an active round
HostReveal(c) ==
    /\ HasGame(c) /\ IsHost(c) /\ GameOf(c).round # Null
    /\ RevealAnswer(c)

IsBuzzerType(r) == r.currentQuestion # Null /\ r.currentQuestion.type = "buzzer"

\* C9: revealAnswer by the host fails with "early", emitting nothing and
\* changing nothing, when the current question is not of type buzzer,
\* allAnswered is false and the clock is before endsAt; it succeeds when
\* allAnswered is true, or the question type is buzzer, or the window has
\* expired.
C9_EarlyReveal ==
    [][ \A c \in Conns : HostReveal(c) =>
          LET r == GameOf(c).round
          IN /\ (~IsBuzzerType(r) /\ ~r.allAnswered /\ now < r.endsAt) =>
                    (out'.ack = "early" /\ out'.ev = {} /\ games' = games)
             /\ (r.allAnswered \/ IsBuzzerType(r) \/ (r.endsAt # 0 /\ r.endsAt <= now)) =>
                    out'.ack = "ok"
      ]_vars

\* startRound issued by the host of a game
HostStartRound(c, d) ==
    /\ HasGame(c) /\ IsHost(c)
    /\ StartRound(c, "mc", d)

\* C10 as stated: every successful startRound leaves a round with empty
\* roundScores and questionIndex 0.
C10_FreshRound ==
    [][ \A c \in Conns, d \in Env.durations : HostStartRound(c, d) =>
          /\ games'[sdata[c].room].round.questionIndex = 0
          /\ games'[sdata[c].room].round.roundScores = Empty ]_vars

\* C10 (as amended): every successful startRound leaves a round with
\* questionIndex 0; its roundScores is empty when no round was active before
\* the call and is the roundScores of the round it replaces otherwise.
C10_FreshOrCarried ==
    [][ \A c \in Conns, d \in Env.durations : HostStartRound(c, d) =>
          /\ games'[sdata[c].room].round.questionIndex = 0
          /\ games'[sdata[c].room].round.roundScores =
                IF GameOf(c).round = Null THEN Empty ELSE GameOf(c).round.roundScores ]_vars

\* A round that has confirmed nothing yet already holds points: startRound
\* replaced a round that had them.
C10_Witness ==
    \E r \in Rooms :
        /\ HasRound(r)
        /\ Round(r).questionIndex = 0
        /\ Round(r).currentQuestion = Null /\ Round(r).answers = Null
        /\ \E s \in DOMAIN Round(r).roundScores : Round(r).roundScores[s] > 0

\* C11: every key of the round's answers map is a connection that has a
\* roster entry with role player.
C11_AnswersArePlayers ==
    \A r \in Rooms :
        (HasRound(r) /\ Round(r).answers # Null) =>
            \A s \in DOMAIN Round(r).answers :
                s \in DOMAIN games[r].players /\ games[r].players[s].role = "player"

\* One of the ten host-only requests, issued by c.
HostOnlyStep(c) ==
    \/ \E d \in EnvRoles.durations : StartRound(c, "mc", d)
    \/ \E q \in EnvRoles.questions : StartQuestion(c, q)
    \/ \E m \in EnvRoles.resets : ResetBuzzer(c, m[1], m[2])
    \/ RevealAnswer(c)
    \/ \E m \in EnvRoles.maps : ConfirmPoints(c, m)
    \/ EndRound(c)
    \/ ShowFullLeaderboard(c)
    \/ EndShow(c)
    \/ RevealNextStep(c)
    \/ RevealSequenceAnswer(c)

\* c created the game it is in.
Creator(c) == HasGame(c) /\ GameOf(c).hostId = c
\* c entered the game it is in through joinRoom.
Joined(c) == HasGame(c) /\ GameOf(c).hostId # c /\ c \in DOMAIN GameOf(c).players

\* C12: a host-only request succeeds only when the connection that created
\* the game issues it; issued by a connection that entered through joinRoom,
\* whatever role it asked for, it fails and leaves the game unchanged.
C12_HostOnly ==
    [][ \A c \in Conns :
          /\ (HasGame(c) /\ HostOnlyStep(c) /\ out'.ack = "ok") => Creator(c)
          /\ (Joined(c) /\ HostOnlyStep(c)) => (out'.ack # "ok" /\ games' = games)
      ]_vars

\* The interval timers that are running: the one each active round owns
\* and the ones whose round was replaced or dropped.
LiveTickers ==
    StaleCount + Cardinality({r \in DOMAIN games : games[r].round # Null /\ games[r].round.tick})

\* The host replaces the round, ends it, or leaves.
TearDown(c) ==
    /\ HasGame(c) /\ IsHost(c)
    /\ \/ \E d \in Env.durations : StartRound(c, "mc", d)
       \/ GameOf(c).round # Null /\ EndRound(c)
       \/ Disconnect(c)

\* C13: at most one ticker is running at any time, and none is running
\* after startRound replaced the round, after endRound, or after the host's
\* disconnect removed the game: no ticker outlives the round that started it.
C13_OneTickerOwned ==
    [][ /\ LiveTickers' <= 1
        /\ \A c \in Conns : TearDown(c) => LiveTickers' = 0
      ]_vars

\* c's socket still names a room whose game has been removed.
RoomGone(c) == sdata[c].room # "none" /\ sdata[c].room \notin DOMAIN games

\* A request of c that is addressed to the room of its socket.
RoomRequest(c) ==
    \/ HostOnlyStep(c)
    \/ Buzz(c)
    \/ \E a \in EnvRoles.answers : SubmitAnswer(c, a)

\* C14: the disconnect of the connection that created a game removes the
\* game; afterwards every request addressed to that room fails and joinRoom
\* with its code fails with "Room not found". The disconnect of any other
\* connection of the game removes that connection's roster entry and
\* nothing else.
C14_Disconnect ==
    [][ \A c \in Conns :
          /\ (HasGame(c) /\ Disconnect(c)) =>
                IF Creator(c)
                THEN sdata[c].room \notin DOMAIN games'
                ELSE games' = [games EXCEPT ![sdata[c].room].players = Del(@, c)]
          /\ (RoomGone(c) /\ RoomRequest(c)) => (out'.ack # "ok" /\ games' = games)
          /\ \A r \in Rooms, n \in EnvRoles.names, ro \in EnvRoles.roles :
                (r \notin DOMAIN games /\ JoinRoom(c, r, n, ro)) =>
                    (out'.ack = "Room not found" /\ games' = games)
      ]_vars

\* C15: no handler throws, and a request that is answered with a failure
\* leaves the games (roster, round fields, ticker) exactly as they were.
C15_FailureIsClean ==
    [][ /\ alive => alive'
        /\ out'.ack \notin {"ok", "none"} => games' = games
      ]_vars

\* resetBuzzer({all, preserveLocks}) issued by the host of a game with a round
HostReset(h, all, preserveLocks) ==
    /\ HasGame(h) /\ IsHost(h) /\ GameOf(h).round # Null
    /\ ResetBuzzer(h, all, preserveLocks)

\* C16: in every mode, the game a resetBuzzer leaves is a fixed point of the
\* same resetBuzzer: issued again by the same host with the same flags it is
\* accepted again and leaves holder, lastBuzzed, the round's lock and every
\* player's lock (the whole game) as the first one left them.
C16_ResetIdempotent ==
    [][ \A h \in Conns, m \in AllResets : HostReset(h, m[1], m[2]) =>
          /\ out'.ack = "ok"
          /\ (HasGame(h) /\ IsHost(h) /\ GameOf(h).round # Null)'
          /\ ResetGame(games'[sdata[h].room], m[1], m[2]) = games'[sdata[h].room]
      ]_vars

\* A reset has just been accepted in a game where a player is locked out.
C16_Witness ==
    /\ traced
    /\ out.ack = "ok" /\ "buzzerReset" \in out.ev
    /\ \E r \in Rooms :
          /\ HasRound(r)
          /\ Holder(r) = Null /\ Round(r).lastBuzzed = NoSid
          /\ \E x \in DOMAIN games[r].players : games[r].players[x].buzzerLocked

\* The current question of the room is a sequence question with steps.
SeqActive(room) ==
    /\ HasRound(room)
    /\ Round(room).currentQuestion # Null
    /\ Round(room).currentQuestion.type \in {"sequence", "links"}
    /\ Round(room).currentQuestion.steps >= 1

\* revealNextStep issued by the host while a sequence question is current
HostNextStep(c) ==
    /\ HasGame(c) /\ IsHost(c) /\ SeqActive(sdata[c].room)
    /\ RevealNextStep(c)

\* startQuestion with a sequence question, issued by the host of a round
HostStartSeq(c, q) ==
    /\ HasGame(c) /\ IsHost(c) /\ GameOf(c).round # Null
    /\ q.type \in {"sequence", "links"}
    /\ StartQuestion(c, q)

\* C17: while a sequence question with n steps is current,
\* 0 <= revealedStepIndex <= n-1 and the visible steps are the prefix
\* steps[0..revealedStepIndex]; startQuestion sets the index to 0, a
\* revealNextStep at index n-1 fails with "noMoreSteps" and changes nothing,
\* any other revealNextStep succeeds and adds exactly 1, and nothing else
\* moves the index while the question stays current.
C17_StepIndex ==
    [][ /\ \A r \in Rooms : SeqActive(r)' =>
              LET q == Round(r)'.currentQuestion
                  idx == Round(r)'.revealedStepIndex
              IN /\ 0 <= idx /\ idx <= q.steps - 1
                 /\ visibleSteps(q, idx) = [i \in 1..(idx + 1) |-> i - 1]
        /\ \A c \in Conns, q \in EnvSeq.questions : HostStartSeq(c, q) =>
              /\ out'.ack = "ok"
              /\ games'[sdata[c].room].round.revealedStepIndex = 0
        /\ \A c \in Conns : HostNextStep(c) =>
              LET r == GameOf(c).round
              IN IF r.revealedStepIndex = r.currentQuestion.steps - 1
                 THEN out'.ack = "noMoreSteps" /\ games' = games
                 ELSE /\ out'.ack = "ok"
                      /\ games'[sdata[c].room].round.revealedStepIndex = r.revealedStepIndex + 1
        /\ \A r \in Rooms :
              (SeqActive(r) /\ SeqActive(r)' /\ Round(r)'.revealedStepIndex # Round(r).revealedStepIndex) =>
                  \/ "sequenceStepRevealed" \in out'.ev
                  \/ "sequenceStarted" \in out'.ev
      ]_vars

\* The last step of a three-step question is visible and a further
\* revealNextStep has been refused.
C17_Witness ==
    /\ traced
    /\ out.ack = "noMoreSteps"
    /\ \E r \in Rooms :
          /\ SeqActive(r)
          /\ Round(r).currentQuestion.steps = 3
          /\ Round(r).revealedStepIndex = 2

\* A ticker with deadline e is running: the one an active round owns or one
\* whose round was replaced or dropped. Timers die with the process.
TickerAt(e) ==
    /\ alive
    /\ \/ e \in DOMAIN stale
       \/ \E r \in DOMAIN games :
             games[r].round # Null /\ games[r].round.tick /\ games[r].round.endsAt = e

\* C18: every ticker a timed startQuestion starts eventually stops; the
\* firing that finds remaining = 0 broadcasts the time-up signal and clears
\* the timer in the same step, so that timer never fires again; a firing
\* with remaining > 0 broadcasts a countdown tick only.
C18_TickerStops ==
    /\ \A e \in EndTimes : TickerAt(e) ~> ~TickerAt(e)
    /\ [][ /\ \A r \in Rooms : Tick(r) =>
                  /\ "tick" \in out'.ev
                  /\ ("roundEnded" \in out'.ev) <=> (Remaining(Round(r).endsAt) = 0)
                  /\ ("roundEnded" \in out'.ev) <=> ~Round(r)'.tick
                  /\ LiveTickers' = LiveTickers - (IF Round(r)'.tick THEN 0 ELSE 1)
            /\ \A e \in EndTimes : StaleTick(e) =>
                  /\ "tick" \in out'.ev
                  /\ ("roundEnded" \in out'.ev) <=> (Remaining(e) = 0)
                  /\ LiveTickers' = LiveTickers - (IF "roundEnded" \in out'.ev THEN 1 ELSE 0)
          ]_vars

\* The ticker of a timed question ran to its deadline, sent the time-up
\* signal and stopped, with answers still missing.
C18_Witness ==
    /\ traced /\ alive
    /\ "roundEnded" \in out.ev
    /\ LiveTickers = 0
    /\ \E r \in Rooms :
          /\ HasRound(r)
          /\ Round(r).currentQuestion = MCQ
          /\ ~Round(r).allAnswered /\ ~Round(r).tick
          /\ now >= Round(r).endsAt

\* x has a roster entry in the room and it is locked out.
LockedOut(room, x) ==
    /\ room \in DOMAIN games
    /\ x \in DOMAIN games[room].players
    /\ games[room].players[x].buzzerLocked

\* The host's full reset, or the start of a buzzer or sequence question.
UnlockStep ==
    \E h \in Conns :
        /\ HasGame(h) /\ IsHost(h) /\ GameOf(h).round # Null
        /\ \/ ResetBuzzer(h, TRUE, FALSE)
           \/ \E q \in {BuzzQ, SeqQ} : StartQuestion(h, q)

\* C19: a locked-out player who stays in the roster stays locked out until
\* the host's full reset or the start of a buzzer or sequence question, and
\* while locked out every buzz() it issues in a round fails with "You are
\* locked out".
C19_LockoutPersists ==
    [][ \A r \in Rooms, x \in Conns : LockedOut(r, x) =>
          /\ (r \in DOMAIN games' /\ x \in DOMAIN games'[r].players /\ ~LockedOut(r, x)') => UnlockStep
          /\ (sdata[x].room = r /\ HasRound(r) /\ Buzz(x)) =>
                (out'.ack = "You are locked out" /\ games' = games)
      ]_vars

\* C20: the round's own buzzerLocked is false in every reachable state, and
\* no buzz() is ever answered "Buzzers locked".
C20_GlobalLockFalse ==
    /\ \A r \in Rooms : HasRound(r) => ~Round(r).buzzerLocked
    /\ out.ack # "Buzzers locked"

\* A buzz has just been refused because of the caller's own lock, after a
\* reset, in a round that another player has buzzed in since.
C20_Witness ==
    /\ traced
    /\ out.ack = "You are locked out"
    /\ \E r \in Rooms :
          /\ HasRound(r)
          /\ ~Round(r).buzzerLocked
          /\ Holder(r) # Null
          /\ \E x \in DOMAIN games[r].players : games[r].players[x].buzzerLocked
====
